---- MODULE Spec2Model ----
(***************************************************************************)
(* Thermal core of gridsim (src/gridsim/thermal/core.py): ThermalProcess   *)
(* and ThermalCoupling, stepped by the thermal simulator.                  *)
(*                                                                         *)
(* Quantities are pint quantities; their magnitudes are modelled as exact  *)
(* rationals [num, den] in lowest terms, so "/" is true division (pint     *)
(* maps __div__ to __truediv__) and is never integer division.  Rounding   *)
(* of binary floating point is not modelled.                               *)
(*                                                                         *)
(* The simulator that owns the registry and runs the calculate and update  *)
(* sweeps (the "simulator main module" of the comment in                   *)
(* ThermalCoupling.calculate) is not part of src/; its step is modelled    *)
(* from sections 2 and 4.2 of the specification.  A sweep visits the       *)
(* elements in any order, one action per visit.                            *)
(***************************************************************************)
EXTENDS Integers, Sequences, FiniteSets, TLC

\* ------------------------------------------------------------ rationals

Abs(i) == IF i < 0 THEN -i ELSE i

RECURSIVE Gcd(_, _)
Gcd(a, b) == IF b = 0 THEN a ELSE Gcd(b, a % b)

\* the quantity n/d, d # 0, in lowest terms with a positive denominator
Q(n, d) ==
    LET g == Gcd(Abs(n), Abs(d))
        s == IF d < 0 THEN -1 ELSE 1
    IN  [num |-> s * (n \div g), den |-> s * (d \div g)]

R(i) == [num |-> i, den |-> 1]

\* Python's None, for an attribute that holds a quantity once it is set:
\* the one value of this shape that is no number
None == [num |-> 0, den |-> 0]

IsNumber(x) == x.den > 0

QAdd(x, y) == Q(x.num * y.den + y.num * x.den, x.den * y.den)
QNeg(x)    == [num |-> -x.num, den |-> x.den]
QSub(x, y) == QAdd(x, QNeg(y))
QMul(x, y) == Q(x.num * y.num, x.den * y.den)
\* defined for y # 0 only; the callers raise ZeroDivisionError otherwise
QDiv(x, y) == Q(x.num * y.den, x.den * y.num)
QAbs(x)    == [num |-> Abs(x.num), den |-> x.den]
QLeq(x, y) == x.num * y.den <= y.num * x.den
QLess(x, y) == x.num * y.den < y.num * x.den
QIsZero(x) == x.num = 0 /\ x.den > 0

\* ------------------------------------------------------------ inputs

Procs == {1, 2, 3}
Coups == {1, 2}

\* constructor arguments <<thermal_capacity, initial_temperature, mass>>
ProcessKinds   == {<<1, 3, 1>>, <<1, 1, 1>>, <<2, 1, 2>>}
Conductivities == {1, 2}
\* <<from_process, to_process>> of the first and of the second coupling
FirstEnds      == {<<1, 2>>}
SecondEnds     == {<<2, 1>>, <<2, 3>>, <<3, 3>>}
DeltaTimes     == {0, 1, 2}

\* simulator operations (steps and resets) of one run
MaxOps == 2

\* arguments of the constructor calls
Lengths     == {-1, 0, 1}
Chargings   == {-1, 0, 1}
KFactors    == {<<0, 0>>, <<1, 0>>, <<0, 1>>, <<-1, 1>>}
\* elements that one run constructs
MaxObjects == 2

\* the subjects a recorder is told of, and the units of a PlotRecorder's axes
Subjects  == {"cold_room", "hot_room"}
PlotUnits == {<<"second", "kelvin">>, <<"millisecond", "millikelvin">>}
\* times of the steps, in seconds
Times     == {17, 5, 42}
\* calls that one run makes on a PlotRecorder
MaxPlotCalls == 5

\* the ends of a histogram's range in seconds, its numbers of bins, and the
\* observed values
RangeEnds  == {0, 10}
NbBins     == 0 .. 4
HistValues == {-1, 0, 5, 10, 11}
\* calls that one run makes on a HistogramRecorder, its constructor included
MaxHistCalls == 4

\* the run of two rooms joined by one coupling: <<hot, cold>> initial
\* temperatures in microkelvin (60 and 20 degrees Celsius; 40 and 10), the
\* rooms' surface in m2 and height in dm, the conductivity in W/K and the
\* resolution in s
RoomTemperatures == {<<333150000, 293150000>>, <<313150000, 283150000>>}
RoomSurface      == 50
RoomHeight       == 25
RoomConductivity == 100
RoomResolution   == 300
\* steps of the run: 3600 s at 300 s
MaxSteps == 12

\* ------------------------------------------------------------ ThermalProcess

ThermalProcess_init(thermal_capacity, initial_temperature, mass) ==
    LET e == QMul(QMul(initial_temperature, thermal_capacity), mass)
    IN  [thermal_capacity        |-> thermal_capacity,
         initial_temperature     |-> initial_temperature,
         mass                    |-> mass,
         internal_thermal_energy |-> e,
         temperature             |-> initial_temperature,
         thermal_energy          |-> e]

\* variants of add_energy with a slip: "=" for "+=", "-=" for "+=", and a
\* temperature refreshed on the spot instead of in update
add_energy_assign(self, delta_energy) ==
    [self EXCEPT !.internal_thermal_energy = delta_energy]

add_energy_minus(self, delta_energy) ==
    [self EXCEPT !.internal_thermal_energy = QSub(@, delta_energy)]

add_energy_eager(self, delta_energy) ==
    LET e == QAdd(self.internal_thermal_energy, delta_energy)
    IN  [self EXCEPT !.internal_thermal_energy = e,
                     !.temperature =
                         QDiv(e, QMul(self.thermal_capacity, self.mass))]

add_energy(self, delta_energy) ==
    [self EXCEPT !.internal_thermal_energy = QAdd(@, delta_energy)]

\* variant of reset that adds the initial energy to the stored energy
ThermalProcess_reset_adds(self) ==
    LET e == QAdd(self.internal_thermal_energy,
                  QMul(QMul(self.initial_temperature, self.thermal_capacity),
                       self.mass))
    IN  [self EXCEPT !.temperature = self.initial_temperature,
                     !.internal_thermal_energy = e,
                     !.thermal_energy = e]

\* variant of reset that leaves the mass out of the energy
ThermalProcess_reset_no_mass(self) ==
    LET e == QMul(self.initial_temperature, self.thermal_capacity)
    IN  [self EXCEPT !.temperature = self.initial_temperature,
                     !.internal_thermal_energy = e,
                     !.thermal_energy = e]

ThermalProcess_reset(self) ==
    LET e == QMul(QMul(self.initial_temperature, self.thermal_capacity),
                  self.mass)
    IN  [self EXCEPT !.temperature = self.initial_temperature,
                     !.internal_thermal_energy = e,
                     !.thermal_energy = e]

\* variant of calculate that publishes the stored energy as update does
ThermalProcess_calculate_publishes(self, t, dt) ==
    [self EXCEPT !.temperature = QDiv(self.internal_thermal_energy,
                                      QMul(self.thermal_capacity, self.mass)),
                 !.thermal_energy = self.internal_thermal_energy]

ThermalProcess_calculate(self, t, dt) == self

\* variant of update that takes the published temperature as the initial one
ThermalProcess_update_rebases(self, t, dt) ==
    LET e == self.internal_thermal_energy
        T == QDiv(e, QMul(self.thermal_capacity, self.mass))
    IN  [self EXCEPT !.thermal_energy = e,
                     !.temperature = T,
                     !.initial_temperature = T]

\* variant of update that empties the stored energy once it is published
ThermalProcess_update_consumes(self, t, dt) ==
    LET e == self.internal_thermal_energy
    IN  [self EXCEPT !.thermal_energy = e,
                     !.temperature =
                         QDiv(e, QMul(self.thermal_capacity, self.mass)),
                     !.internal_thermal_energy = R(0)]

\* variant of update that leaves the mass out of the temperature
ThermalProcess_update_no_mass(self, t, dt) ==
    LET e == self.internal_thermal_energy
    IN  [self EXCEPT !.thermal_energy = e,
                     !.temperature = QDiv(e, self.thermal_capacity)]

ThermalProcess_update(self, t, dt) ==
    LET e == self.internal_thermal_energy
    IN  [self EXCEPT !.thermal_energy = e,
                     !.temperature =
                         QDiv(e, QMul(self.thermal_capacity, self.mass))]

\* ------------------------------------------------------------ ThermalCoupling

ThermalCoupling_init(thermal_conductivity, from_process, to_process) ==
    [delta_energy         |-> R(0),
     thermal_conductivity |-> thermal_conductivity,
     from_process_id      |-> from_process,
     to_process_id        |-> to_process,
     power                |-> None]

ThermalCoupling_reset(self) == [self EXCEPT !.delta_energy = R(0)]

ThermalCoupling_calculate(self, t, dt) == self

\* variant of update that multiplies by delta_time
ThermalCoupling_update_times(self, t, dt) ==
    [obj |-> [self EXCEPT !.power = QMul(self.delta_energy, dt)],
     exc |-> "none"]

\* self.power = self._delta_energy / delta_time: the division raises
\* ZeroDivisionError for delta_time = 0 and the assignment does not happen
ThermalCoupling_update(self, t, dt) ==
    IF QIsZero(dt)
    THEN [obj |-> self, exc |-> "ZeroDivisionError"]
    ELSE [obj |-> [self EXCEPT !.power = QDiv(self.delta_energy, dt)],
          exc |-> "none"]

\* ------------------------------------------------------------ construction

\* what a constructor call gives: the new element [class, attrs], or the
\* exception it raised
Returned(class, attrs) == [obj |-> [class |-> class, attrs |-> attrs],
                           exc |-> "none"]
Raised(exc) == [obj |-> [class |-> "none", attrs |-> <<>>], exc |-> exc]

\* an endpoint argument of ThermalCoupling: a ThermalProcess that the
\* simulator has given the id i, one whose id is still None, or the int i
Entity(i)    == [type |-> "ThermalProcess", has_id |-> TRUE, id |-> i]
Unregistered == [type |-> "ThermalProcess", has_id |-> FALSE, id |-> 0]
RawId(i)     == [type |-> "int", has_id |-> TRUE, id |-> i]

\* @accepts((positions, type)): the argument has to be an instance of type,
\* else the call raises TypeError before the constructor's body runs
accepts(arg, type) == arg.type = type

\* the two tests of the constructor's body on an endpoint: a ThermalProcess
\* with an id, or an int
is_registered_process(arg) == arg.type = "ThermalProcess" /\ arg.has_id
is_raw_id(arg) == arg.type = "int"

\* variant of the constructor that takes the id of a process without
\* asking whether it has one
ThermalCoupling_new_unchecked(friendly_name, thermal_conductivity, from_process, to_process) ==
    IF ~accepts(from_process, "ThermalProcess")
       \/ ~accepts(to_process, "ThermalProcess")
    THEN Raised("TypeError")
    ELSE Returned("ThermalCoupling",
                  ThermalCoupling_init(thermal_conductivity,
                                       from_process.id, to_process.id))

ThermalCoupling_new(friendly_name, thermal_conductivity, from_process, to_process) ==
    IF ~accepts(from_process, "ThermalProcess")
       \/ ~accepts(to_process, "ThermalProcess")
    THEN Raised("TypeError")
    ELSE IF ~(is_registered_process(from_process) \/ is_raw_id(from_process))
    THEN Raised("RuntimeError")
    ELSE IF ~(is_registered_process(to_process) \/ is_raw_id(to_process))
    THEN Raised("RuntimeError")
    ELSE Returned("ThermalCoupling",
                  ThermalCoupling_init(thermal_conductivity,
                                       from_process.id, to_process.id))

\* ------------------------------------------------------------ electrical

AbstractElectricalTwoPort_init(friendly_name, X, Res) ==
    [R |-> Res, friendly_name |-> friendly_name, X |-> X]

\* variant of the constructor with "<" for "<=" in the test of the length
ElectricalTransmissionLine_init_lt(friendly_name, length, X, Res, B) ==
    IF length < 0 THEN Raised("RuntimeError")
    ELSE IF B < 0 THEN Raised("RuntimeError")
    ELSE Returned("ElectricalTransmissionLine",
                  [length |-> length, B |-> B,
                   two_port |-> AbstractElectricalTwoPort_init(friendly_name,
                                                               X, Res)])

ElectricalTransmissionLine_init(friendly_name, length, X, Res, B) ==
    IF length <= 0 THEN Raised("RuntimeError")
    ELSE IF B < 0 THEN Raised("RuntimeError")
    ELSE Returned("ElectricalTransmissionLine",
                  [length |-> length, B |-> B,
                   two_port |-> AbstractElectricalTwoPort_init(friendly_name,
                                                               X, Res)])

\* a complex number, and Python's k_factor == 0
Complex(re, im) == [re |-> re, im |-> im]
IsZeroComplex(k) == k.re = 0 /\ k.im = 0

\* variant of the constructor that looks at the real part only
ElectricalGenTransformer_init_real(friendly_name, k_factor, X, Res) ==
    IF k_factor.re = 0 THEN Raised("RuntimeError")
    ELSE Returned("ElectricalGenTransformer",
                  [two_port |-> AbstractElectricalTwoPort_init(friendly_name,
                                                               X, Res),
                   k_factor |-> k_factor])

ElectricalGenTransformer_init(friendly_name, k_factor, X, Res) ==
    IF IsZeroComplex(k_factor) THEN Raised("RuntimeError")
    ELSE Returned("ElectricalGenTransformer",
                  [two_port |-> AbstractElectricalTwoPort_init(friendly_name,
                                                               X, Res),
                   k_factor |-> k_factor])

ElectricalBus_init(friendly_name, bus_type) ==
    [type |-> bus_type, friendly_name |-> friendly_name]

ElectricalSlackBus_init(friendly_name) ==
    Returned("ElectricalSlackBus",
             ElectricalBus_init(friendly_name, "SLACK_BUS"))

\* variant of the PV constructor with the tag of the constructor below it
ElectricalPVBus_init_pq(friendly_name) ==
    Returned("ElectricalPVBus", ElectricalBus_init(friendly_name, "PQ_BUS"))

ElectricalPVBus_init(friendly_name) ==
    Returned("ElectricalPVBus", ElectricalBus_init(friendly_name, "PV_BUS"))

ElectricalPQBus_init(friendly_name) ==
    Returned("ElectricalPQBus", ElectricalBus_init(friendly_name, "PQ_BUS"))

\* ------------------------------------------------------------ units

\* a measurement of the unit registry, and a plain int or float
Measurement(m, u) == [magnitude |-> m, units |-> u]
Number(m) == [magnitude |-> m, units |-> ""]

\* how many thousandths of its base unit a unit is
Scale(u) ==
    CASE u \in {"second", "kelvin"}           -> 1000
      [] u \in {"millisecond", "millikelvin"} -> 1

\* units.convert(m, u): a plain number becomes a measurement in u as it is,
\* a measurement is converted to u
units_convert(m, u) ==
    IF m.units = ""
    THEN Measurement(m.magnitude, u)
    ELSE Measurement((m.magnitude * Scale(m.units)) \div Scale(u), u)

\* units.value(measurement)
units_value(m) == m.magnitude

\* ------------------------------------------------------------ PlotRecorder

PlotRecorder_init(attribute_name, x_unit, y_unit) ==
    [x |-> <<>>, y |-> <<>>,
     attribute_name |-> attribute_name, x_unit |-> x_unit, y_unit |-> y_unit]

PlotRecorder_on_simulation_reset(self, subjects) ==
    [self EXCEPT !.y = [s \in (DOMAIN self.y) \cup subjects |->
                            IF s \in subjects THEN <<>> ELSE self.y[s]]]

\* variant of on_simulation_step that puts the newest time first
PlotRecorder_on_simulation_step_first(self, t) ==
    [self EXCEPT !.x = <<units_value(units_convert(t, self.x_unit))>> \o @]

PlotRecorder_on_simulation_step(self, t) ==
    [self EXCEPT !.x = Append(@, units_value(units_convert(t, self.x_unit)))]

\* self._y[subject] raises KeyError for a subject that no reset has named
PlotRecorder_on_observed_value(self, subject, t, value) ==
    IF subject \notin DOMAIN self.y
    THEN [obj |-> self, exc |-> "KeyError"]
    ELSE [obj |-> [self EXCEPT !.y[subject] =
                       Append(@, units_value(units_convert(value,
                                                           self.y_unit)))],
          exc |-> "none"]

PlotRecorder_get_x_values(self) == self.x

PlotRecorder_get_y_values(self) == self.y

\* ------------------------------------------------------------ HistogramRecorder

\* datetime.timedelta: a whole number of microseconds
timedelta(seconds) == [microseconds |-> seconds * 1000000]

\* the floor of a / b, for b other than 0
FloorDiv(a, b) == IF b > 0 THEN a \div b ELSE (-a) \div (-b)

\* timedelta / int: the floor, in microseconds; ZeroDivisionError for 0
timedelta_div(td, n) ==
    IF n = 0
    THEN [obj |-> td, exc |-> "ZeroDivisionError"]
    ELSE [obj |-> [microseconds |-> FloorDiv(td.microseconds, n)],
          exc |-> "none"]

\* value < td.total_seconds(), for value a whole number of seconds
less_than_total_seconds(value, td) == value * 1000000 < td.microseconds

\* the key of a subject's counts: subject + "." + attribute_name
Label(subject, attribute_name) == <<subject, attribute_name>>

\* variant of the constructor that lets an empty range pass
HistogramRecorder_init_lt(attribute_name, x_min, x_max, nb_bins) ==
    LET d == timedelta_div([microseconds |-> x_max.microseconds
                                             - x_min.microseconds],
                           nb_bins - 2)
    IN  IF x_max.microseconds < x_min.microseconds
        THEN Raised("TypeError")
        ELSE IF d.exc # "none"
        THEN Raised(d.exc)
        ELSE Returned("HistogramRecorder",
                      [y |-> <<>>, attribute_name |-> attribute_name,
                       x_min |-> x_min, x_max |-> x_max,
                       N_bins |-> nb_bins, x_delta |-> d.obj])

HistogramRecorder_init(attribute_name, x_min, x_max, nb_bins) ==
    LET d == timedelta_div([microseconds |-> x_max.microseconds
                                             - x_min.microseconds],
                           nb_bins - 2)
    IN  IF x_max.microseconds <= x_min.microseconds
        THEN Raised("TypeError")
        ELSE IF d.exc # "none"
        THEN Raised(d.exc)
        ELSE Returned("HistogramRecorder",
                      [y |-> <<>>, attribute_name |-> attribute_name,
                       x_min |-> x_min, x_max |-> x_max,
                       N_bins |-> nb_bins, x_delta |-> d.obj])

\* [0 for _ in xrange(N_bins)]: no count at all for N_bins <= 0
HistogramRecorder_on_simulation_reset(self, subjects) ==
    LET labels == {Label(s, self.attribute_name) : s \in subjects}
    IN  [self EXCEPT !.y = [l \in (DOMAIN self.y) \cup labels |->
                               IF l \in labels
                               THEN [i \in 1 .. self.N_bins |-> 0]
                               ELSE self.y[l]]]

HistogramRecorder_on_simulation_step(self, t) == self

\* the bin of a value: 0 below x_min, N_bins - 1 from x_max on; in between,
\* (value - x_min.total_seconds()) / self._x_delta divides a number by a
\* timedelta, which raises TypeError
bin_of(self, value) ==
    IF less_than_total_seconds(value, self.x_min)
    THEN [exc |-> "none", bin_i |-> 0]
    ELSE IF ~less_than_total_seconds(value, self.x_max)
    THEN [exc |-> "none", bin_i |-> self.N_bins - 1]
    ELSE [exc |-> "TypeError", bin_i |-> 0]

\* self._y[label][bin_i] += 1: KeyError for a label that no reset has made,
\* IndexError for an index outside the list; a negative index counts from
\* the end of the list. The counts are kept as a sequence, bin i at i + 1.
HistogramRecorder_on_observed_value(self, subject, t, value) ==
    LET b == bin_of(self, value)
        label == Label(subject, self.attribute_name)
        n == IF label \in DOMAIN self.y THEN Len(self.y[label]) ELSE 0
        i == IF b.bin_i < 0 THEN b.bin_i + n ELSE b.bin_i
    IN  IF b.exc # "none" THEN [obj |-> self, exc |-> b.exc]
        ELSE IF label \notin DOMAIN self.y
        THEN [obj |-> self, exc |-> "KeyError"]
        ELSE IF i < 0 \/ i >= n THEN [obj |-> self, exc |-> "IndexError"]
        ELSE [obj |-> [self EXCEPT !.y[label][i + 1] = @ + 1],
              exc |-> "none"]

HistogramRecorder_get_y_values(self) == self.y

\* ------------------------------------------------------------ enclosures

\* The magnitudes of the two-room run are kept as enclosures [lo, hi] of
\* whole numbers of a small unit: microkelvin for a temperature, decijoule
\* for an energy, milliwatt for a power.  Every operation rounds lo down
\* and hi up, so the real number that the code's formula gives always lies
\* in the enclosure.

Interval(lo, hi) == [lo |-> lo, hi |-> hi]
Exactly(v)       == Interval(v, v)

\* floor and ceiling of a * n / d for n >= 0 and d > 0; a * n is not formed
MulDivFloor(a, n, d) == (a \div d) * n + ((a % d) * n) \div d
MulDivCeil(a, n, d)  == -MulDivFloor(-a, n, d)

IAdd(x, y) == Interval(x.lo + y.lo, x.hi + y.hi)
INeg(x)    == Interval(-x.hi, -x.lo)
ISub(x, y) == IAdd(x, INeg(y))
\* x * n / d for n > 0 and d > 0
IScale(x, n, d) ==
    LET g == Gcd(n, d)
    IN  Interval(MulDivFloor(x.lo, n \div g, d \div g),
                 MulDivCeil(x.hi, n \div g, d \div g))

\* ------------------------------------------------------------ rooms

\* gridsim.util.Air: thermal capacity in mJ/(g K) and weight in g/m3
Air_thermal_capacity == 1005
Air_weight           == 1200

\* temperature * thermal_capacity * mass: microkelvin * mJ/(g K) * g,
\* in decijoule
heat_of(temperature, thermal_capacity, mass) ==
    IScale(temperature, thermal_capacity * mass, 100000000)

\* energy / (thermal_capacity * mass), in microkelvin
temperature_of(energy, thermal_capacity, mass) ==
    IScale(energy, 100000000, thermal_capacity * mass)

\* ThermalProcess.__init__ for the magnitudes of a room
Room_init(thermal_capacity, initial_temperature, mass) ==
    LET e == heat_of(initial_temperature, thermal_capacity, mass)
    IN  [thermal_capacity        |-> thermal_capacity,
         initial_temperature     |-> initial_temperature,
         mass                    |-> mass,
         internal_thermal_energy |-> e,
         temperature             |-> initial_temperature,
         thermal_energy          |-> e]

\* ThermalProcess.room: a room of air; surface in m2, height in dm
ThermalProcess_room(surface, height, initial_temperature) ==
    Room_init(Air_thermal_capacity, initial_temperature,
              (surface * height * Air_weight) \div 10)

\* variant of add_energy with "-=" for "+="
Room_add_energy_minus(self, delta_energy) ==
    [self EXCEPT !.internal_thermal_energy = ISub(@, delta_energy)]

Room_add_energy(self, delta_energy) ==
    [self EXCEPT !.internal_thermal_energy = IAdd(@, delta_energy)]

Room_calculate(self, t, dt) == self

Room_update(self, t, dt) ==
    LET e == self.internal_thermal_energy
    IN  [self EXCEPT !.thermal_energy = e,
                     !.temperature =
                         temperature_of(e, self.thermal_capacity, self.mass)]

\* ThermalCoupling.__init__ for the coupling of two rooms; the
\* conductivity in W/K
RoomCoupling_init(thermal_conductivity, from_process, to_process) ==
    [delta_energy         |-> Exactly(0),
     thermal_conductivity |-> thermal_conductivity,
     from_process_id      |-> from_process,
     to_process_id        |-> to_process,
     power                |-> None]

RoomCoupling_calculate(self, t, dt) == self

\* self.power = self._delta_energy / delta_time: decijoule / s, in milliwatt
RoomCoupling_update(self, t, dt) ==
    [self EXCEPT !.power = IScale(self.delta_energy, 100, dt)]

\* ------------------------------------------------------------ state

VARIABLES
    process,      \* registry: process id -> ThermalProcess
    coupling,     \* registry: coupling id -> ThermalCoupling
    pc,           \* "idle", "calculate", "update", "failed"
    time,         \* simulated time of the last completed step
    delta_time,   \* delta_time of the step in progress
    calculated,   \* elements whose calculate ran in this step
    updated,      \* elements whose update ran in this step
    ops,          \* simulator operations (steps, resets) started so far
    raised,       \* exception raised by the last call, or "none"
    pre,          \* the registry as it was when the step in progress began
    calls,        \* add_energy calls of this step: coupling id -> <<[on, delta]>>
    built,        \* the registry as it was right after construction
    last,         \* the last simulator operation: "construct", "reset", "step"
    objects,      \* the elements the constructor calls have returned, in order
    call,         \* the last constructor call: [ctor, args]
    plot,         \* the PlotRecorder
    hist,         \* the HistogramRecorder [class, attrs], if there is one
    heard         \* what the recorder has been called with

vars == <<process, coupling, pc, time, delta_time, calculated, updated,
          ops, raised, pre, calls, built, last, objects, call, plot, hist,
          heard>>

\* the recorders
rvars == <<plot, hist, heard>>

\* what a run of the thermal simulator leaves alone
bvars == <<objects, call, rvars>>

\* nothing has been recorded: no call yet, no subject named, no round open
NothingHeard ==
    [calls  |-> 0,
     steps  |-> <<>>,
     values |-> [s \in Subjects |-> <<>>],
     resets |-> 0,
     due    |-> {},
     ok     |-> TRUE,
     seen   |-> [s \in Subjects |-> 0],
     made   |-> <<>>]

NoRecorder == [class |-> "none", attrs |-> <<>>]

\* the recorder of a run that records nothing
IdleRecorders ==
    /\ plot = PlotRecorder_init("temperature", "second", "kelvin")
    /\ hist = NoRecorder
    /\ heard = NothingHeard

NoCall == [ctor |-> "none", args |-> <<>>]

Elements == ({"process"} \X Procs) \cup ({"coupling"} \X Coups)

NoCalls == [c \in Coups |-> <<>>]

Init ==
    /\ process \in [Procs -> {ThermalProcess_init(R(a[1]), R(a[2]), R(a[3])) :
                                a \in ProcessKinds}]
    /\ \E k1 \in Conductivities, k2 \in Conductivities,
          e1 \in FirstEnds, e2 \in SecondEnds :
           coupling = (1 :> ThermalCoupling_init(R(k1), e1[1], e1[2])) @@
                      (2 :> ThermalCoupling_init(R(k2), e2[1], e2[2]))
    /\ pc = "idle"
    /\ time = 0
    /\ delta_time = 0
    /\ calculated = {}
    /\ updated = {}
    /\ ops = 0
    /\ raised = "none"
    /\ pre = [process |-> process, coupling |-> coupling]
    /\ calls = NoCalls
    /\ built = [process |-> process, coupling |-> coupling]
    /\ last = "construct"
    /\ objects = <<>>
    /\ call = NoCall
    /\ IdleRecorders

\* ------------------------------------------------------------ simulator

\* delta_E = conductivity * (T_from - T_to) * delta_time
conducted_energy(cpl, procs, dt) ==
    QMul(QMul(cpl.thermal_conductivity,
              QSub(procs[cpl.from_process_id].temperature,
                   procs[cpl.to_process_id].temperature)),
         dt)

\* from_process.add_energy(-delta_E); to_process.add_energy(+delta_E)
exchange(procs, cpl, delta_energy) ==
    LET a == [procs EXCEPT ![cpl.from_process_id] =
                               add_energy(@, QNeg(delta_energy))]
    IN  [a EXCEPT ![cpl.to_process_id] = add_energy(@, delta_energy)]

exchange_calls(cpl, delta_energy) ==
    << [on |-> cpl.from_process_id, delta |-> QNeg(delta_energy)],
       [on |-> cpl.to_process_id,   delta |-> delta_energy] >>

\* reset() of every element of the registry
Reset ==
    /\ UNCHANGED bvars
    /\ pc \in {"idle", "failed"}
    /\ ops < MaxOps
    /\ ops' = ops + 1
    /\ process' = [p \in Procs |-> ThermalProcess_reset(process[p])]
    /\ coupling' = [c \in Coups |-> ThermalCoupling_reset(coupling[c])]
    /\ pc' = "idle"
    /\ time' = 0
    /\ raised' = "none"
    /\ calculated' = {}
    /\ updated' = {}
    /\ pre' = [process |-> process', coupling |-> coupling']
    /\ calls' = NoCalls
    /\ last' = "reset"
    /\ UNCHANGED <<delta_time, built>>

\* the simulator starts a step of dt
Step(dt) ==
    /\ UNCHANGED bvars
    /\ pc = "idle"
    /\ ops < MaxOps
    /\ pc' = "calculate"
    /\ delta_time' = dt
    /\ ops' = ops + 1
    /\ calculated' = {}
    /\ updated' = {}
    /\ raised' = "none"
    /\ pre' = [process |-> process, coupling |-> coupling]
    /\ calls' = NoCalls
    /\ last' = "step"
    /\ UNCHANGED <<process, coupling, time, built>>

AfterCalculate(done) == IF done = Elements THEN "update" ELSE "calculate"

CalculateProcess(p) ==
    /\ UNCHANGED bvars
    /\ pc = "calculate"
    /\ <<"process", p>> \notin calculated
    /\ process' = [process EXCEPT ![p] =
                       ThermalProcess_calculate(@, R(time), R(delta_time))]
    /\ calculated' = calculated \cup {<<"process", p>>}
    /\ pc' = AfterCalculate(calculated')
    /\ UNCHANGED <<coupling, time, delta_time, updated, ops, raised, pre,
                   calls, built, last>>

\* coupling.calculate(), then the simulator's energy exchange for it
CalculateCoupling(c) ==
    /\ UNCHANGED bvars
    /\ pc = "calculate"
    /\ <<"coupling", c>> \notin calculated
    /\ LET cpl == ThermalCoupling_calculate(coupling[c], R(time),
                                            R(delta_time))
           dE  == conducted_energy(cpl, process, R(delta_time))
       IN  /\ coupling' = [coupling EXCEPT ![c] =
                               [cpl EXCEPT !.delta_energy = dE]]
           /\ process' = exchange(process, cpl, dE)
           /\ calls' = [calls EXCEPT ![c] = @ \o exchange_calls(cpl, dE)]
    /\ calculated' = calculated \cup {<<"coupling", c>>}
    /\ pc' = AfterCalculate(calculated')
    /\ UNCHANGED <<time, delta_time, updated, ops, raised, pre, built, last>>

UpdateProcess(p) ==
    /\ UNCHANGED bvars
    /\ pc = "update"
    /\ <<"process", p>> \notin updated
    /\ process' = [process EXCEPT ![p] =
                       ThermalProcess_update(@, R(time), R(delta_time))]
    /\ updated' = updated \cup {<<"process", p>>}
    /\ pc' = IF updated' = Elements THEN "idle" ELSE "update"
    /\ time' = IF updated' = Elements THEN time + delta_time ELSE time
    /\ UNCHANGED <<coupling, delta_time, calculated, ops, raised, pre,
                   calls, built, last>>

\* an exception of update ends the step where it is
UpdateCoupling(c) ==
    /\ UNCHANGED bvars
    /\ pc = "update"
    /\ <<"coupling", c>> \notin updated
    /\ LET r == ThermalCoupling_update(coupling[c], R(time), R(delta_time))
       IN  /\ coupling' = [coupling EXCEPT ![c] = r.obj]
           /\ raised' = r.exc
           /\ IF r.exc = "none"
              THEN /\ updated' = updated \cup {<<"coupling", c>>}
                   /\ pc' = IF updated' = Elements THEN "idle" ELSE "update"
                   /\ time' = IF updated' = Elements THEN time + delta_time
                              ELSE time
              ELSE /\ pc' = "failed"
                   /\ UNCHANGED <<updated, time>>
    /\ UNCHANGED <<process, delta_time, calculated, ops, pre, calls, built,
                   last>>

Next ==
    \/ Reset
    \/ \E dt \in DeltaTimes : Step(dt)
    \/ \E p \in Procs : CalculateProcess(p)
    \/ \E c \in Coups : CalculateCoupling(c)
    \/ \E p \in Procs : UpdateProcess(p)
    \/ \E c \in Coups : UpdateCoupling(c)

Spec == Init /\ [][Next]_vars

\* ------------------------------------------------------------ constructor calls

\* the variables of the thermal simulator, which no constructor touches
tvars == <<process, coupling, pc, time, delta_time, calculated, updated,
           ops, pre, calls, built, last>>

\* the endpoints a ThermalCoupling is constructed with; no process has id 7
ProcessArgs == {Entity(1), Entity(2), Unregistered, RawId(1), RawId(7)}

InitBuild ==
    /\ process = [p \in Procs |-> ThermalProcess_init(R(1), R(1), R(1))]
    /\ coupling = (1 :> ThermalCoupling_init(R(1), 1, 2)) @@
                  (2 :> ThermalCoupling_init(R(1), 2, 3))
    /\ pc = "idle"
    /\ time = 0
    /\ delta_time = 0
    /\ calculated = {}
    /\ updated = {}
    /\ ops = 0
    /\ raised = "none"
    /\ pre = [process |-> process, coupling |-> coupling]
    /\ calls = NoCalls
    /\ built = [process |-> process, coupling |-> coupling]
    /\ last = "construct"
    /\ objects = <<>>
    /\ call = NoCall
    /\ IdleRecorders

\* a constructor call: the element joins the others unless the call raised
Construct(ctor, args, r) ==
    /\ Len(objects) < MaxObjects
    /\ call' = [ctor |-> ctor, args |-> args]
    /\ raised' = r.exc
    /\ objects' = IF r.exc = "none" THEN Append(objects, r.obj) ELSE objects
    /\ UNCHANGED <<tvars, rvars>>

NewTransmissionLine(length, B) ==
    Construct("ElectricalTransmissionLine", <<length, B>>,
              ElectricalTransmissionLine_init("line", length, 1, 0, B))

NewGenTransformer(k) ==
    Construct("ElectricalGenTransformer", <<k>>,
              ElectricalGenTransformer_init("transformer", k, 1, 0))

NewSlackBus ==
    Construct("ElectricalSlackBus", <<>>, ElectricalSlackBus_init("slack"))

NewPVBus ==
    Construct("ElectricalPVBus", <<>>, ElectricalPVBus_init("pv"))

NewPQBus ==
    Construct("ElectricalPQBus", <<>>, ElectricalPQBus_init("pq"))

NewThermalCoupling(f, t) ==
    Construct("ThermalCoupling", <<f, t>>,
              ThermalCoupling_new("coupling", R(1), f, t))

NextBuild ==
    \/ \E length \in Lengths, B \in Chargings : NewTransmissionLine(length, B)
    \/ \E k \in KFactors : NewGenTransformer(Complex(k[1], k[2]))
    \/ NewSlackBus
    \/ NewPVBus
    \/ NewPQBus
    \/ \E f \in ProcessArgs, t \in ProcessArgs : NewThermalCoupling(f, t)

SpecBuild == InitBuild /\ [][NextBuild]_vars

\* ------------------------------------------------------------ recorder calls

\* the variables that no call on a recorder touches
qvars == <<tvars, objects, call>>

\* the thermal simulator and the constructors at rest
InitQuiet ==
    /\ process = [p \in Procs |-> ThermalProcess_init(R(1), R(1), R(1))]
    /\ coupling = (1 :> ThermalCoupling_init(R(1), 1, 2)) @@
                  (2 :> ThermalCoupling_init(R(1), 2, 3))
    /\ pc = "idle"
    /\ time = 0
    /\ delta_time = 0
    /\ calculated = {}
    /\ updated = {}
    /\ ops = 0
    /\ raised = "none"
    /\ pre = [process |-> process, coupling |-> coupling]
    /\ calls = NoCalls
    /\ built = [process |-> process, coupling |-> coupling]
    /\ last = "construct"
    /\ objects = <<>>
    /\ call = NoCall

\* the values a PlotRecorder is given: a temperature, and a plain number
PlotValues == {Measurement(300, "kelvin"), Number(7)}

InitPlot ==
    /\ InitQuiet
    /\ \E u \in PlotUnits : plot = PlotRecorder_init("temperature", u[1], u[2])
    /\ hist = NoRecorder
    /\ heard = NothingHeard

\* the simulator calls a recorder in rounds: on_simulation_reset with all
\* subjects, then for each step on_simulation_step once and on_observed_value
\* once per subject; heard.ok tells whether the calls so far are such rounds
PlotReset(subjects) ==
    /\ heard.calls < MaxPlotCalls
    /\ plot' = PlotRecorder_on_simulation_reset(plot, subjects)
    /\ raised' = "none"
    /\ heard' = [heard EXCEPT
                    !.calls = @ + 1,
                    !.values = [s \in Subjects |->
                                   IF s \in subjects THEN <<>> ELSE @[s]],
                    !.resets = @ + 1,
                    !.ok = @ /\ heard.due = {} /\ subjects = Subjects]
    /\ UNCHANGED <<qvars, hist>>

PlotStep(t) ==
    /\ heard.calls < MaxPlotCalls
    /\ plot' = PlotRecorder_on_simulation_step(plot, t)
    /\ raised' = "none"
    /\ heard' = [heard EXCEPT
                    !.calls = @ + 1,
                    !.steps = Append(@, t),
                    !.due = Subjects,
                    !.ok = @ /\ heard.due = {} /\ heard.resets > 0]
    /\ UNCHANGED <<qvars, hist>>

PlotObserved(subject, value) ==
    /\ heard.calls < MaxPlotCalls
    /\ LET r == PlotRecorder_on_observed_value(plot, subject,
                                               Measurement(0, "second"), value)
       IN  /\ plot' = r.obj
           /\ raised' = r.exc
           /\ heard' = [heard EXCEPT
                           !.calls = @ + 1,
                           !.values[subject] =
                               IF r.exc = "none" THEN Append(@, value) ELSE @,
                           !.due = @ \ {subject},
                           !.ok = @ /\ subject \in heard.due]
    /\ UNCHANGED <<qvars, hist>>

NextPlot ==
    \/ \E subjects \in {{"hot_room"}, Subjects} : PlotReset(subjects)
    \/ \E t \in Times : PlotStep(Measurement(t, "second"))
    \/ \E subject \in Subjects, value \in PlotValues :
          PlotObserved(subject, value)

SpecPlot == InitPlot /\ [][NextPlot]_vars

InitHist ==
    /\ InitQuiet
    /\ IdleRecorders

\* heard.seen counts the on_observed_value calls made for each subject
\* since the last reset that named it; heard.made is the last constructor
\* call <<x_min, x_max, nb_bins>>
NewHistogramRecorder(x_min, x_max, nb_bins) ==
    /\ heard.calls < MaxHistCalls
    /\ hist = NoRecorder
    /\ LET r == HistogramRecorder_init("temperature", timedelta(x_min),
                                       timedelta(x_max), nb_bins)
       IN  /\ hist' = IF r.exc = "none" THEN r.obj ELSE hist
           /\ raised' = r.exc
    /\ heard' = [heard EXCEPT !.calls = @ + 1,
                              !.made = <<x_min, x_max, nb_bins>>]
    /\ UNCHANGED <<qvars, plot>>

HistReset(subjects) ==
    /\ heard.calls < MaxHistCalls
    /\ hist # NoRecorder
    /\ hist' = [hist EXCEPT !.attrs =
                   HistogramRecorder_on_simulation_reset(@, subjects)]
    /\ raised' = "none"
    /\ heard' = [heard EXCEPT
                    !.calls = @ + 1,
                    !.resets = @ + 1,
                    !.seen = [s \in Subjects |->
                                 IF s \in subjects THEN 0 ELSE @[s]]]
    /\ UNCHANGED <<qvars, plot>>

HistStep(t) ==
    /\ heard.calls < MaxHistCalls
    /\ hist # NoRecorder
    /\ hist' = [hist EXCEPT !.attrs =
                   HistogramRecorder_on_simulation_step(@, t)]
    /\ raised' = "none"
    /\ heard' = [heard EXCEPT !.calls = @ + 1, !.steps = Append(@, t)]
    /\ UNCHANGED <<qvars, plot>>

HistObserved(subject, value) ==
    /\ heard.calls < MaxHistCalls
    /\ hist # NoRecorder
    /\ LET r == HistogramRecorder_on_observed_value(hist.attrs, subject,
                                                    0, value)
       IN  /\ hist' = [hist EXCEPT !.attrs = r.obj]
           /\ raised' = r.exc
    /\ heard' = [heard EXCEPT !.calls = @ + 1,
                              !.values[subject] = Append(@, value),
                              !.seen[subject] = @ + 1]
    /\ UNCHANGED <<qvars, plot>>

NextHist ==
    \/ \E x_min \in RangeEnds, x_max \in RangeEnds, nb_bins \in NbBins :
          NewHistogramRecorder(x_min, x_max, nb_bins)
    \/ \E subjects \in {{"hot_room"}, Subjects} : HistReset(subjects)
    \/ HistStep(300)
    \/ \E subject \in Subjects, value \in HistValues :
          HistObserved(subject, value)

SpecHist == InitHist /\ [][NextHist]_vars

\* ------------------------------------------------------------ the two-room run

\* the hot room is process 1, the cold room process 2; the coupling leads from the
\* hot room to the cold room
Rooms == {1, 2}

RoomElements == ({"process"} \X Rooms) \cup {<<"coupling", 1>>}

\* what the run of the two rooms leaves alone
svars == <<raised, calls, built, last, bvars>>

InitRooms ==
    /\ \E T \in RoomTemperatures :
          process = [p \in Rooms |->
                        ThermalProcess_room(RoomSurface, RoomHeight,
                                            Exactly(T[p]))]
    /\ coupling = (1 :> RoomCoupling_init(RoomConductivity, 1, 2))
    /\ pc = "idle"
    /\ time = 0
    /\ delta_time = 0
    /\ calculated = {}
    /\ updated = {}
    /\ ops = 0
    /\ raised = "none"
    /\ pre = [process |-> process, coupling |-> coupling]
    /\ calls = NoCalls
    /\ built = [process |-> process, coupling |-> coupling]
    /\ last = "construct"
    /\ objects = <<>>
    /\ call = NoCall
    /\ IdleRecorders

\* delta_E = conductivity * (T_from - T_to) * delta_time:
\* W/K * microkelvin * s, in decijoule
room_conducted_energy(cpl, procs, dt) ==
    IScale(ISub(procs[cpl.from_process_id].temperature,
                procs[cpl.to_process_id].temperature),
           cpl.thermal_conductivity * dt, 100000)

\* from_process.add_energy(-delta_E); to_process.add_energy(+delta_E)
room_exchange(procs, cpl, delta_energy) ==
    LET a == [procs EXCEPT ![cpl.from_process_id] =
                               Room_add_energy(@, INeg(delta_energy))]
    IN  [a EXCEPT ![cpl.to_process_id] = Room_add_energy(@, delta_energy)]

\* the simulator starts a step of dt
RoomStep(dt) ==
    /\ pc = "idle"
    /\ ops < MaxSteps
    /\ pc' = "calculate"
    /\ delta_time' = dt
    /\ ops' = ops + 1
    /\ calculated' = {}
    /\ updated' = {}
    /\ pre' = [process |-> process, coupling |-> coupling]
    /\ UNCHANGED <<process, coupling, time, svars>>

RoomCalculateProcess(p) ==
    /\ pc = "calculate"
    /\ <<"process", p>> \notin calculated
    /\ process' = [process EXCEPT ![p] = Room_calculate(@, time, delta_time)]
    /\ calculated' = calculated \cup {<<"process", p>>}
    /\ pc' = IF calculated' = RoomElements THEN "update" ELSE "calculate"
    /\ UNCHANGED <<coupling, time, delta_time, updated, ops, pre, svars>>

\* coupling.calculate(), then the simulator's energy exchange for it
RoomCalculateCoupling(c) ==
    /\ pc = "calculate"
    /\ <<"coupling", c>> \notin calculated
    /\ LET cpl == RoomCoupling_calculate(coupling[c], time, delta_time)
           dE  == room_conducted_energy(cpl, process, delta_time)
       IN  /\ coupling' = [coupling EXCEPT ![c] =
                               [cpl EXCEPT !.delta_energy = dE]]
           /\ process' = room_exchange(process, cpl, dE)
    /\ calculated' = calculated \cup {<<"coupling", c>>}
    /\ pc' = IF calculated' = RoomElements THEN "update" ELSE "calculate"
    /\ UNCHANGED <<time, delta_time, updated, ops, pre, svars>>

RoomUpdateProcess(p) ==
    /\ pc = "update"
    /\ <<"process", p>> \notin updated
    /\ process' = [process EXCEPT ![p] = Room_update(@, time, delta_time)]
    /\ updated' = updated \cup {<<"process", p>>}
    /\ pc' = IF updated' = RoomElements THEN "idle" ELSE "update"
    /\ time' = IF updated' = RoomElements THEN time + delta_time ELSE time
    /\ UNCHANGED <<coupling, delta_time, calculated, ops, pre, svars>>

RoomUpdateCoupling(c) ==
    /\ pc = "update"
    /\ <<"coupling", c>> \notin updated
    /\ coupling' = [coupling EXCEPT ![c] =
                       RoomCoupling_update(@, time, delta_time)]
    /\ updated' = updated \cup {<<"coupling", c>>}
    /\ pc' = IF updated' = RoomElements THEN "idle" ELSE "update"
    /\ time' = IF updated' = RoomElements THEN time + delta_time ELSE time
    /\ UNCHANGED <<process, delta_time, calculated, ops, pre, svars>>

NextRooms ==
    \/ RoomStep(RoomResolution)
    \/ \E p \in Rooms : RoomCalculateProcess(p)
    \/ RoomCalculateCoupling(1)
    \/ \E p \in Rooms : RoomUpdateProcess(p)
    \/ RoomUpdateCoupling(1)

SpecRooms == InitRooms /\ [][NextRooms]_vars

\* ------------------------------------------------------------ properties

RECURSIVE QSum(_, _)
\* the sum of f[x] over the finite set S
QSum(f, S) ==
    IF S = {} THEN R(0)
    ELSE LET x == CHOOSE y \in S : TRUE
         IN  QAdd(f[x], QSum(f, S \ {x}))

StoredEnergy(procs) ==
    QSum([p \in Procs |-> procs[p].internal_thermal_energy], Procs)

\* the step in progress has run every calculate and every update
StepComplete == last = "step" /\ updated = Elements

\* C1: with processes coupled only to each other, the sum of the processes'
\* stored energy after every complete step equals the sum before the first
\* step.
C1_Conservation ==
    StepComplete => StoredEnergy(process) = StoredEnergy(built.process)

C1_Witness ==
    /\ StepComplete
    /\ \E p \in Procs : process[p].internal_thermal_energy #
                            built.process[p].internal_thermal_energy

\* the registry after a step of dt from reg, with the couplings and then the
\* elements taken in the order of their ids
RECURSIVE CalculateInOrder(_, _, _, _)
CalculateInOrder(procs, cpls, todo, dt) ==
    IF todo = {} THEN [process |-> procs, coupling |-> cpls]
    ELSE LET c   == CHOOSE x \in todo : \A y \in todo : x <= y
             dE  == conducted_energy(cpls[c], procs, dt)
         IN  CalculateInOrder(exchange(procs, cpls[c], dE),
                              [cpls EXCEPT ![c].delta_energy = dE],
                              todo \ {c}, dt)

StepInOrder(reg, t, dt) ==
    LET s == CalculateInOrder(reg.process, reg.coupling, Coups, dt)
    IN  [process  |-> [p \in Procs |->
                          ThermalProcess_update(s.process[p], t, dt)],
         coupling |-> [c \in Coups |->
                          ThermalCoupling_update(s.coupling[c], t, dt).obj]]

\* C2: whatever the order in which calculate (with the exchange of each
\* coupling) and then update visit the elements, the step ends in the same
\* temperature and thermal_energy of every process and the same power of
\* every coupling: those of the sweep in id order.
C2_OrderIndependence ==
    StepComplete =>
        LET s == StepInOrder(pre, R(time), R(delta_time))
        IN  /\ \A p \in Procs :
                 /\ process[p].temperature = s.process[p].temperature
                 /\ process[p].thermal_energy = s.process[p].thermal_energy
            /\ \A c \in Coups : coupling[c].power = s.coupling[c].power

\* a complete step in which both couplings moved energy through a process
\* they share
C2_Witness ==
    /\ StepComplete
    /\ \A c \in Coups : ~QIsZero(coupling[c].delta_energy)
    /\ {coupling[1].from_process_id, coupling[1].to_process_id} \cap
       {coupling[2].from_process_id, coupling[2].to_process_id} # {}
    /\ coupling[2].from_process_id # coupling[2].to_process_id

\* C3: ThermalProcess.reset restores temperature, thermal_energy and the
\* stored energy of every process to their values right after construction.
C3_ProcessReset ==
    last = "reset" =>
        \A p \in Procs :
            /\ process[p] = built.process[p]
            /\ process[p].temperature = process[p].initial_temperature
            /\ process[p].internal_thermal_energy =
                   QMul(QMul(process[p].initial_temperature,
                             process[p].thermal_capacity), process[p].mass)

\* a reset after a step that had moved energy between processes
C3_Witness ==
    /\ last = "reset"
    /\ \E c \in Coups : IsNumber(coupling[c].power) /\ ~QIsZero(coupling[c].power)

\* C4: ThermalCoupling.reset leaves the pending delta energy and the power of
\* every coupling at their values right after construction.
C4_CouplingReset ==
    last = "reset" =>
        \A c \in Coups :
            /\ coupling[c].delta_energy = built.coupling[c].delta_energy
            /\ coupling[c].power = built.coupling[c].power

\* C5: right after construction, after reset and after every
\* ThermalProcess.update, temperature = stored energy / (thermal_capacity *
\* mass) and thermal_energy = stored energy.
Published(p) ==
    /\ process[p].temperature =
           QDiv(process[p].internal_thermal_energy,
                QMul(process[p].thermal_capacity, process[p].mass))
    /\ process[p].thermal_energy = process[p].internal_thermal_energy

C5_TemperatureOfEnergy ==
    \A p \in Procs :
        (last \in {"construct", "reset"} \/ <<"process", p>> \in updated)
            => Published(p)

\* an update that published an energy other than the initial one, of a
\* process whose mass is not 1
C5_Witness ==
    \E p \in Procs :
        /\ <<"process", p>> \in updated
        /\ process[p].internal_thermal_energy #
               built.process[p].internal_thermal_energy
        /\ process[p].mass # R(1)

\* C6: a step with delta_time = 0 raises nothing and changes no process.
C6_ZeroDeltaTimeNoOp ==
    (last = "step" /\ delta_time = 0) =>
        /\ raised = "none"
        /\ \A p \in Procs :
             /\ process[p].internal_thermal_energy =
                    pre.process[p].internal_thermal_energy
             /\ process[p].temperature = pre.process[p].temperature

\* processes a and b are joined by one coupling c and every other coupling
\* joins a process to itself, so that nothing else feeds a or b
Paired(c, a, b) ==
    /\ a # b
    /\ {coupling[c].from_process_id, coupling[c].to_process_id} = {a, b}
    /\ \A o \in Coups \ {c} :
         coupling[o].from_process_id = coupling[o].to_process_id

Gap(procs, a, b) == QAbs(QSub(procs[a].temperature, procs[b].temperature))

HeatCapacity(p) == QMul(process[p].thermal_capacity, process[p].mass)

\* conductivity * delta_time * (1/(C_a m_a) + 1/(C_b m_b)) <= 2
Stable(c, a, b) ==
    QLeq(QMul(QMul(coupling[c].thermal_conductivity, R(delta_time)),
              QAdd(QDiv(R(1), HeatCapacity(a)), QDiv(R(1), HeatCapacity(b)))),
         R(2))

\* C7 as stated: for two processes joined by one coupling, |T_a - T_b| after
\* a step is at most its value before the step, whatever delta_time,
\* conductivity, capacity and mass.
C7_MonotonicAlways ==
    StepComplete =>
        \A c \in Coups, a \in Procs, b \in Procs :
            Paired(c, a, b) =>
                QLeq(Gap(process, a, b), Gap(pre.process, a, b))

\* C7: for two processes joined by one coupling, |T_a - T_b| after a step is
\* at most its value before the step, provided conductivity * delta_time *
\* (1/(C_a m_a) + 1/(C_b m_b)) <= 2.
C7_MonotonicWhenStable ==
    StepComplete =>
        \A c \in Coups, a \in Procs, b \in Procs :
            (Paired(c, a, b) /\ Stable(c, a, b)) =>
                QLeq(Gap(process, a, b), Gap(pre.process, a, b))

\* a step that brought the two temperatures closer without making them equal
C7_Witness ==
    /\ StepComplete
    /\ \E c \in Coups, a \in Procs, b \in Procs :
         /\ Paired(c, a, b)
         /\ Stable(c, a, b)
         /\ QLess(Gap(process, a, b), Gap(pre.process, a, b))
         /\ ~QIsZero(Gap(process, a, b))

\* C8: ThermalCoupling.update with delta_time > 0 sets power to the pending
\* delta energy divided by delta_time and changes no process.
C8_CouplingUpdate ==
    [][\A c \in Coups :
          (UpdateCoupling(c) /\ delta_time > 0) =>
              /\ coupling'[c].power =
                     QDiv(coupling[c].delta_energy, R(delta_time))
              /\ coupling'[c].delta_energy = coupling[c].delta_energy
              /\ process' = process]_vars

\* a coupling updated with delta_time = 2 and a pending delta energy
C8_Witness ==
    \E c \in Coups :
        /\ <<"coupling", c>> \in updated
        /\ delta_time = 2
        /\ ~QIsZero(coupling[c].delta_energy)
        /\ coupling[c].power = QDiv(coupling[c].delta_energy, R(2))

\* the sum of the arguments of the add_energy calls, from the i-th on, that
\* coupling c made on process p in this step
RECURSIVE CallsOn(_, _, _)
CallsOn(c, p, i) ==
    IF i > Len(calls[c]) THEN R(0)
    ELSE IF calls[c][i].on = p
         THEN QAdd(calls[c][i].delta, CallsOn(c, p, i + 1))
         ELSE CallsOn(c, p, i + 1)

\* C9: in a step, each coupling makes exactly two add_energy calls, one on
\* its from-process with -delta_E and one on its to-process with +delta_E,
\* none before its turn; the arguments sum to zero and, when the calculate
\* sweep is over, each process's stored energy has grown by the arguments of
\* the calls on it.
C9_ExchangeOnce ==
    last = "step" =>
        /\ \A c \in Coups :
             IF <<"coupling", c>> \in calculated
             THEN /\ calls[c] =
                        << [on    |-> coupling[c].from_process_id,
                            delta |-> QNeg(coupling[c].delta_energy)],
                           [on    |-> coupling[c].to_process_id,
                            delta |-> coupling[c].delta_energy] >>
                  /\ QIsZero(QAdd(calls[c][1].delta, calls[c][2].delta))
             ELSE calls[c] = <<>>
        /\ (calculated = Elements /\ updated = {}) =>
               \A p \in Procs :
                   process[p].internal_thermal_energy =
                       QAdd(pre.process[p].internal_thermal_energy,
                            QSum([c \in Coups |-> CallsOn(c, p, 1)], Coups))

\* the calculate sweep is over and a process got energy from both couplings
C9_Witness ==
    /\ last = "step"
    /\ calculated = Elements
    /\ \A c \in Coups : ~QIsZero(coupling[c].delta_energy)
    /\ coupling[1].to_process_id = coupling[2].from_process_id
    /\ coupling[1].from_process_id # coupling[2].to_process_id

\* C10: the energy a coupling conducts in a step is conductivity * (T_from -
\* T_to) * delta_time with the temperatures the endpoints had when the step
\* began, also when another coupling of the same process came first.
C10_PreStepTemperatures ==
    last = "step" =>
        \A c \in Coups :
            <<"coupling", c>> \in calculated =>
                coupling[c].delta_energy =
                    conducted_energy(coupling[c], pre.process, R(delta_time))

\* both couplings of a shared process have conducted energy, and the energy
\* stored in that process no longer matches its published temperature
C10_Witness ==
    /\ last = "step"
    /\ pc = "calculate"
    /\ \A c \in Coups : /\ <<"coupling", c>> \in calculated
                        /\ ~QIsZero(coupling[c].delta_energy)
    /\ coupling[1].to_process_id = coupling[2].from_process_id
    /\ coupling[1].from_process_id # coupling[2].to_process_id
    /\ ~Published(coupling[1].to_process_id)


\* C16: calculate(time, delta_time) of a process or of a coupling changes no
\* attribute of any other element, and leaves temperature and thermal_energy
\* of every process and power of every coupling as they were: the call
\* returns its element unchanged, a process's turn in the calculate sweep
\* changes no element at all, and a coupling's turn changes neither another
\* coupling nor an observable attribute.
C16_CalculateFrame ==
    [][pc = "calculate" =>
         /\ \A p \in Procs :
              /\ ThermalProcess_calculate(process[p], R(time), R(delta_time))
                    = process[p]
              /\ process'[p].temperature = process[p].temperature
              /\ process'[p].thermal_energy = process[p].thermal_energy
         /\ \A c \in Coups :
              /\ ThermalCoupling_calculate(coupling[c], R(time),
                                           R(delta_time)) = coupling[c]
              /\ coupling'[c].power = coupling[c].power
              /\ <<"coupling", c>> \notin calculated' \ calculated
                    => coupling'[c] = coupling[c]
         /\ (\E p \in Procs : <<"process", p>> \in calculated' \ calculated)
                    => process' = process]_vars

\* the calculate sweep is over, energy has moved, and a process still shows
\* the temperature of before the step
C16_Witness ==
    /\ last = "step"
    /\ pc = "update"
    /\ updated = {}
    /\ \E p \in Procs : /\ ~Published(p)
                        /\ process[p].temperature = pre.process[p].temperature

\* C17: add_energy changes only the stored energy of its process, so from
\* the start of a step until the process's update, after however many
\* add_energy calls in whatever order, the process's temperature and
\* thermal_energy are those published by the last completed update.
C17_PartialStepsHidden ==
    last = "step" =>
        \A p \in Procs :
            /\ <<"process", p>> \notin updated =>
                  /\ process[p].temperature = pre.process[p].temperature
                  /\ process[p].thermal_energy = pre.process[p].thermal_energy
            /\ \A d \in {R(-1), R(2)} :
                  [add_energy(process[p], d) EXCEPT
                       !.internal_thermal_energy =
                           process[p].internal_thermal_energy] = process[p]

\* the update sweep has begun, and a process whose update has not come yet
\* stores another energy than it shows
C17_Witness ==
    /\ last = "step"
    /\ pc = "update"
    /\ updated # {}
    /\ \E p \in Procs :
          /\ <<"process", p>> \notin updated
          /\ process[p].internal_thermal_energy # process[p].thermal_energy
          /\ process[p].thermal_energy = pre.process[p].thermal_energy

\* add_energy(d) for each d of the sequence ds in turn
RECURSIVE AddAll(_, _)
AddAll(self, ds) ==
    IF ds = <<>> THEN self
    ELSE AddAll(add_energy(self, Head(ds)), Tail(ds))

\* the arguments of the add_energy calls on p that the step has made so
\* far, coupling by coupling
DeltasOn(p) ==
    LET cs == SelectSeq(calls[1] \o calls[2], LAMBDA x : x.on = p)
    IN  [i \in 1 .. Len(cs) |-> cs[i].delta]

RECURSIVE SumSeq(_)
SumSeq(ds) == IF ds = <<>> THEN R(0) ELSE QAdd(Head(ds), SumSeq(Tail(ds)))

\* C18: add_energy accumulates, in any order: when the calculate sweep of a
\* step is over, each process is what add_energy(d1), ..., add_energy(dn)
\* make of the process of before the step, for d1..dn the arguments of the
\* calls on it taken in every order, and its stored energy is the stored
\* energy of before plus d1 + ... + dn.
C18_Accumulation ==
    (last = "step" /\ calculated = Elements /\ updated = {}) =>
        \A p \in Procs :
            LET ds == DeltasOn(p)
            IN  /\ \A f \in Permutations(1 .. Len(ds)) :
                      AddAll(pre.process[p],
                             [i \in 1 .. Len(ds) |-> ds[f[i]]]) = process[p]
                /\ process[p].internal_thermal_energy =
                      QAdd(pre.process[p].internal_thermal_energy, SumSeq(ds))

\* the calculate sweep is over, and the process between the two couplings
\* has received one nonzero amount of energy from each, the two different
C18_Witness ==
    /\ last = "step"
    /\ calculated = Elements
    /\ updated = {}
    /\ \A c \in Coups : /\ Len(calls[c]) = 2
                        /\ ~QIsZero(calls[c][1].delta)
    /\ calls[1][2].on = calls[2][1].on
    /\ calls[1][2].delta # calls[2][1].delta
    /\ calls[1][2].delta # QNeg(calls[2][1].delta)

\* C19: a coupling's pending delta energy is reset to zero each step: when
\* the update sweep of a step is over, the pending delta energy of every
\* coupling is zero again.
C19_PendingDeltaCleared ==
    StepComplete => \A c \in Coups : QIsZero(coupling[c].delta_energy)

\* C20: in every state from construction on, through reset, calculate and
\* update, the temperature and the thermal_energy of every process and the
\* power of every coupling are numbers.
C20_NumericAttributes ==
    /\ \A p \in Procs : /\ IsNumber(process[p].temperature)
                        /\ IsNumber(process[p].thermal_energy)
    /\ \A c \in Coups : IsNumber(coupling[c].power)

\* what an operation must leave alone: of a process its thermal capacity,
\* mass and initial temperature, of a coupling its conductivity and endpoints
ProcessParameters(x) ==
    <<x.thermal_capacity, x.mass, x.initial_temperature>>

CouplingParameters(x) ==
    <<x.thermal_conductivity, x.from_process_id, x.to_process_id>>

\* C24: every reset, calculate, update and add_energy call leaves a
\* process's thermal capacity, mass and initial temperature and a coupling's
\* conductivity and endpoint identifiers as they were at construction: in
\* every state that these calls of the simulator reach, they are those of
\* the constructed registry; of a process the calls change stored energy,
\* thermal_energy and temperature only.
C24_ParametersFixed ==
    /\ \A p \in Procs :
          ProcessParameters(process[p]) = ProcessParameters(built.process[p])
    /\ \A c \in Coups :
          CouplingParameters(coupling[c]) =
              CouplingParameters(built.coupling[c])

\* two operations of the simulator are over, and a process stores another
\* energy and shows another temperature than at construction
C24_Witness ==
    /\ ops = 2
    /\ pc = "idle"
    /\ \E p \in Procs :
          /\ process[p].temperature # process[p].initial_temperature
          /\ process[p].internal_thermal_energy #
                built.process[p].internal_thermal_energy

\* C25: reset() is idempotent: in every reachable state, a second reset()
\* of a process or of a coupling right after the first leaves the element
\* as the first left it.
C25_ResetIdempotent ==
    /\ \A p \in Procs :
          LET once == ThermalProcess_reset(process[p])
          IN  ThermalProcess_reset(once) = once
    /\ \A c \in Coups :
          LET once == ThermalCoupling_reset(coupling[c])
          IN  ThermalCoupling_reset(once) = once

\* a step is over that changed a process and left a pending delta energy,
\* so that reset() has something to undo
C25_Witness ==
    /\ StepComplete
    /\ \E p \in Procs : ThermalProcess_reset(process[p]) # process[p]
    /\ \E c \in Coups : ThermalCoupling_reset(coupling[c]) # coupling[c]

\* the endpoints of coupling c had equal temperatures when the step began
AtRest(c) ==
    pre.process[pre.coupling[c].from_process_id].temperature =
        pre.process[pre.coupling[c].to_process_id].temperature

Ends(c) == {coupling[c].from_process_id, coupling[c].to_process_id}

C27_UpdateIdempotent ==
    \A p \in Procs :
        LET once == ThermalProcess_update(process[p], R(time), R(delta_time))
        IN  /\ once.internal_thermal_energy =
                  process[p].internal_thermal_energy
            /\ ThermalProcess_update(once, R(time), R(delta_time)) = once

\* the calculate sweep has moved energy into or out of a process and the
\* update of that process is still to come
C27_Witness ==
    /\ last = "step"
    /\ pc = "update"
    /\ \E p \in Procs :
          /\ <<"process", p>> \notin updated
          /\ ~Published(p)
          /\ ThermalProcess_update(process[p], R(time), R(delta_time))
                # process[p]

\* ------------------------------------------------------------ construction claims

\* the element that the last constructor call added, if it added one
NewObjects ==
    IF Len(objects') > Len(objects) THEN {objects'[Len(objects')]} ELSE {}

\* the last constructor call returned the element obj, which joined the others
Built(obj) ==
    /\ raised' = "none"
    /\ objects' = Append(objects, obj)

\* the last constructor call raised exc and left no element behind
Rejected(exc) ==
    /\ raised' = exc
    /\ objects' = objects

\* C11: constructing an ElectricalTransmissionLine succeeds if and only if
\* length > 0 and B >= 0 (B = 0 is accepted, length = 0 is not); a successful
\* call gives a line that records the given length and B, and every other
\* call raises an error at construction and gives no line.
C11_TransmissionLine ==
    [][call'.ctor = "ElectricalTransmissionLine" =>
         LET length == call'.args[1]
             B == call'.args[2]
         IN  IF length > 0 /\ B >= 0
             THEN \E obj \in NewObjects :
                    /\ Built(obj)
                    /\ obj.class = "ElectricalTransmissionLine"
                    /\ obj.attrs.length = length
                    /\ obj.attrs.B = B
             ELSE Rejected("RuntimeError")]_vars

\* a line with B = 0 was built, and the call with length = 0 after it raised
C11_Witness ==
    /\ Len(objects) = 1
    /\ objects[1].class = "ElectricalTransmissionLine"
    /\ objects[1].attrs.B = 0
    /\ call.ctor = "ElectricalTransmissionLine"
    /\ call.args[1] = 0
    /\ raised = "RuntimeError"

\* C12: constructing an ElectricalGenTransformer with k_factor = 0 raises an
\* error at construction; with any other complex k_factor the call succeeds
\* and the transformer records that k_factor.
C12_GenTransformer ==
    [][call'.ctor = "ElectricalGenTransformer" =>
         LET k == call'.args[1]
         IN  IF k = Complex(0, 0)
             THEN Rejected("RuntimeError")
             ELSE \E obj \in NewObjects :
                    /\ Built(obj)
                    /\ obj.class = "ElectricalGenTransformer"
                    /\ obj.attrs.k_factor = k]_vars

\* a transformer with the k_factor 1j was built, and the call with
\* k_factor = 0 after it raised
C12_Witness ==
    /\ Len(objects) = 1
    /\ objects[1].class = "ElectricalGenTransformer"
    /\ objects[1].attrs.k_factor = Complex(0, 1)
    /\ call.ctor = "ElectricalGenTransformer"
    /\ call.args[1] = Complex(0, 0)
    /\ raised = "RuntimeError"

\* C13: a ThermalCoupling constructed with two ThermalProcess entities takes
\* their ids as from_process_id and to_process_id when both have one, and
\* the construction fails when either of them has the id None.
C13_EntityEndpoint ==
    [][(/\ call'.ctor = "ThermalCoupling"
        /\ call'.args[1].type = "ThermalProcess"
        /\ call'.args[2].type = "ThermalProcess") =>
         LET f == call'.args[1]
             t == call'.args[2]
         IN  IF f.has_id /\ t.has_id
             THEN \E obj \in NewObjects :
                    /\ Built(obj)
                    /\ obj.class = "ThermalCoupling"
                    /\ obj.attrs.from_process_id = f.id
                    /\ obj.attrs.to_process_id = t.id
             ELSE Rejected("RuntimeError")]_vars

\* a coupling of the processes 2 and 1 was built, and the call after it,
\* whose to_process has no id, raised
C13_Witness ==
    /\ Len(objects) = 1
    /\ objects[1].class = "ThermalCoupling"
    /\ objects[1].attrs.from_process_id = 2
    /\ objects[1].attrs.to_process_id = 1
    /\ call.ctor = "ThermalCoupling"
    /\ call.args = <<Entity(1), Unregistered>>
    /\ raised = "RuntimeError"

\* C14: a ThermalCoupling constructed with a raw identifier as an endpoint
\* (the other endpoint being a raw identifier or a process with an id)
\* succeeds and stores the identifier as it is, whether or not a process
\* has it.
C14_RawEndpoint ==
    [][(/\ call'.ctor = "ThermalCoupling"
        /\ \E i \in {1, 2} : call'.args[i].type = "int"
        /\ \A i \in {1, 2} : call'.args[i].has_id) =>
         \E obj \in NewObjects :
            /\ Built(obj)
            /\ obj.class = "ThermalCoupling"
            /\ obj.attrs.from_process_id = call'.args[1].id
            /\ obj.attrs.to_process_id = call'.args[2].id]_vars

\* the role tag that each bus constructor stands for
RoleOf(class) ==
    CASE class = "ElectricalSlackBus" -> "SLACK_BUS"
      [] class = "ElectricalPVBus"    -> "PV_BUS"
      [] class = "ElectricalPQBus"    -> "PQ_BUS"

IsBus(obj) ==
    obj.class \in {"ElectricalSlackBus", "ElectricalPVBus", "ElectricalPQBus"}

\* C15: a bus carries the role tag of the constructor that built it
\* (SLACK_BUS, PV_BUS or PQ_BUS), and no later operation changes an element
\* that exists, its role included.
C15_BusRole ==
    [][/\ \A i \in DOMAIN objects : objects'[i] = objects[i]
       /\ \A i \in DOMAIN objects' :
            IsBus(objects'[i]) =>
                objects'[i].attrs.type = RoleOf(objects'[i].class)]_vars

\* a PV bus, and a PQ bus built after it
C15_Witness ==
    /\ Len(objects) = 2
    /\ objects[1].class = "ElectricalPVBus"
    /\ objects[1].attrs.type = "PV_BUS"
    /\ objects[2].class = "ElectricalPQBus"
    /\ objects[2].attrs.type = "PQ_BUS"


\* ------------------------------------------------------------ recorder claims

\* the number v, read in the unit u, is the measurement or plain number m
SameQuantity(v, u, m) ==
    IF m.units = ""
    THEN v = m.magnitude
    ELSE v * Scale(u) = m.magnitude * Scale(m.units)

\* the numbers of the sequence vs, read in the unit u, are the measurements
\* of the sequence ms, one for one and in the same order
SameQuantities(vs, u, ms) ==
    /\ Len(vs) = Len(ms)
    /\ \A i \in 1 .. Len(ms) : SameQuantity(vs[i], u, ms[i])

C30_OneTimePerValue ==
    (heard.ok /\ heard.due = {} /\ heard.resets > 0) =>
        \A s \in DOMAIN PlotRecorder_get_y_values(plot) :
            Len(PlotRecorder_get_y_values(plot)[s]) =
                Len(PlotRecorder_get_x_values(plot))


\* C21: constructing a HistogramRecorder with x_max <= x_min fails at the
\* constructor call with no recorder made, and no recorder that exists has
\* such a range, whatever is called on it later.
C21_EmptyRangeRejected ==
    /\ hist # NoRecorder =>
          hist.attrs.x_max.microseconds > hist.attrs.x_min.microseconds
    /\ (heard.made # <<>> /\ heard.made[2] <= heard.made[1]) =>
          /\ hist = NoRecorder
          /\ raised = "TypeError"

\* a constructor call with x_max = x_min has raised
C21_Witness ==
    /\ heard.made = <<10, 10, 3>>
    /\ hist = NoRecorder
    /\ raised = "TypeError"

\* the bins that the claim gives a value: 0 below x_min, nb_bins - 1 from
\* x_max on, 1 .. nb_bins - 2 in between
BinsFor(self, value) ==
    IF less_than_total_seconds(value, self.x_min) THEN {0}
    ELSE IF ~less_than_total_seconds(value, self.x_max)
    THEN {self.N_bins - 1}
    ELSE 1 .. self.N_bins - 2

\* C28: for every recorder that the constructor has accepted and every
\* value, on_observed_value for a subject that a reset has named increments
\* exactly one bin, with an index in 0 .. nb_bins - 1: bin 0 for a value
\* below x_min, bin nb_bins - 1 for a value at or above x_max, a bin in
\* 1 .. nb_bins - 2 for a value in between.
C28_OneBinPerValue ==
    [][\A s \in Subjects :
         (/\ hist # NoRecorder
          /\ Len(heard'.values[s]) > Len(heard.values[s])
          /\ Label(s, hist.attrs.attribute_name) \in DOMAIN hist.attrs.y) =>
            LET self  == hist.attrs
                l     == Label(s, self.attribute_name)
                value == heard'.values[s][Len(heard'.values[s])]
            IN  /\ raised' = "none"
                /\ \E b \in (0 .. self.N_bins - 1) \cap BinsFor(self, value) :
                      hist'.attrs.y =
                          [self.y EXCEPT ![l][b + 1] = @ + 1]]_vars

RECURSIVE SumCounts(_)
SumCounts(counts) ==
    IF counts = <<>> THEN 0 ELSE Head(counts) + SumCounts(Tail(counts))

\* C29: for every subject that an on_simulation_reset has named there are
\* nb_bins counts, all zero after the reset, and their sum is the number of
\* on_observed_value calls made for the subject since that reset.
C29_CountsSumToCalls ==
    hist # NoRecorder =>
        \A s \in Subjects :
            LET l == Label(s, hist.attrs.attribute_name)
            IN  l \in DOMAIN HistogramRecorder_get_y_values(hist.attrs) =>
                  /\ Len(hist.attrs.y[l]) = hist.attrs.N_bins
                  /\ SumCounts(hist.attrs.y[l]) = heard.seen[s]

\* ------------------------------------------------------------ the run of the docstring

\* the enclosure x lies within tol of v
About(x, v, tol) == v - tol <= x.lo /\ x.hi <= v + tol

HotRoom  == process[1]
ColdRoom == process[2]

\* the run with rooms at 333.15 K and 293.15 K
DocstringRun ==
    /\ HotRoom.initial_temperature = Exactly(333150000)
    /\ ColdRoom.initial_temperature = Exactly(293150000)

\* C22: two rooms of equal capacity and mass at 333.15 K and 293.15 K,
\* joined by 100 W/K and stepped at 300 s, have exactly their initial
\* temperatures at t = 0, 325.19 K and 301.11 K to two decimals at t = 300
\* and 313.195 K and 313.105 K to three decimals at t = 3600, and their
\* temperatures add up to 626.30 K within a millikelvin after every step.
\* In this run and in the other runs of the model the hot room is at all
\* times at least as warm as the cold room, the sum of the temperatures
\* after a step is the sum of the initial ones within a millikelvin, and
\* the power of the coupling is positive and smaller after every step than
\* after the step before; in the run of the docstring it is 4000 W after
\* the first step and below a hundredth of that after the twelfth.
C22_Equilibration ==
    /\ HotRoom.temperature.lo >= ColdRoom.temperature.hi
    /\ pc = "idle" =>
          /\ time = ops * RoomResolution
          /\ About(IAdd(HotRoom.temperature, ColdRoom.temperature),
                   HotRoom.initial_temperature.lo
                       + ColdRoom.initial_temperature.lo, 1000)
          /\ time > 0 => coupling[1].power.lo > 0
          /\ time > 300 => coupling[1].power.hi < pre.coupling[1].power.lo
    /\ (DocstringRun /\ pc = "idle") =>
          /\ About(IAdd(HotRoom.temperature, ColdRoom.temperature),
                   626300000, 1000)
          /\ time = 0 =>
                /\ HotRoom.temperature = Exactly(333150000)
                /\ ColdRoom.temperature = Exactly(293150000)
          /\ time = 300 =>
                /\ About(HotRoom.temperature, 325190000, 5000)
                /\ About(ColdRoom.temperature, 301110000, 5000)
                /\ coupling[1].power = Exactly(4000000)
          /\ time = 3600 =>
                /\ About(HotRoom.temperature, 313195000, 500)
                /\ About(ColdRoom.temperature, 313105000, 500)
                /\ coupling[1].power.hi < 40000

\* the twelfth step of the run of the docstring is over
C22_Witness ==
    /\ DocstringRun
    /\ pc = "idle"
    /\ ops = 12
    /\ time = 3600

====
